---- MODULE Spec2Model ----
(***************************************************************************)
(* Model of invoice_chatbot.py: the main pipeline                          *)
(*   parse_invoices_from_images -> create_pandas_dataframe ->              *)
(*   start_chatbot_agent                                                   *)
(* as a state machine.  Texts returned by the model service are sequences  *)
(* of tokens (a code fence, white space, payloads); the payloads that     *)
(* are JSON documents or Python one-liners are looked up in tables that    *)
(* give their value / their effect.                                        *)
(***************************************************************************)
EXTENDS Integers, Sequences, FiniteSets, TLC

VARIABLES
    image_files,    \* the directory listing: one entry per image file
    log,            \* per image, in order: [file, result] of the loop body
    invoice_data,   \* the list parse_invoices_from_images accumulates
    df,             \* the DataFrame object shared by build, prompt and exec
    built,          \* the value create_pandas_dataframe returned
    fs,             \* the files on disk
    pc,             \* position of the program
    reads,          \* number of input() calls made
    user_question,  \* the last line read
    generated_code, \* the string handed to exec
    stdout,         \* what sys.stdout is bound to: "session" or "buffer"
    old_targets,    \* redirect_stdout's stack of saved streams
    buffer,         \* the io.StringIO of the current turn
    code_result,    \* buffer.getvalue().strip()
    exc,            \* the exception in flight: "none", "Exception", "SystemExit"
    steps,          \* the steps run since the last prompt, with their outcome
    shown           \* what reached the session's stream since the last prompt

vars == <<image_files, log, invoice_data, df, built, fs, pc, reads,
          user_question, generated_code, stdout, old_targets, buffer,
          code_result, exc, steps, shown>>

----------------------------------------------------------------------------
(* Bounds *)

MaxImages == 2
MaxTurns == 2

----------------------------------------------------------------------------
(* Text helpers *)

Fields == {"vendor", "invoice_number", "invoice_date", "due_date", "total"}
DateFields == {"invoice_date", "due_date"}

SetMin(S) == CHOOSE m \in S : \A n \in S : m <= n
SetMax(S) == CHOOSE m \in S : \A n \in S : m >= n

IsSpace(t) == t = " "

\* str.strip(): drops leading and trailing white space
Strip(s) ==
    LET keep == {i \in 1..Len(s) : ~IsSpace(s[i])}
    IN  IF keep = {} THEN <<>> ELSE SubSeq(s, SetMin(keep), SetMax(keep))

NotJsonFence(t) == t \notin {"<fence>json", "<fence>"}
NotPythonFence(t) == t \notin {"<fence>python", "<fence>"}
NotSpace(t) == ~IsSpace(t)

\* response.text.strip(), then both replace() calls that delete the fences
CleanJsonText(text) == SelectSeq(Strip(text), NotJsonFence)

\* response.text.strip(), then both replace() calls that delete the fences
CleanCodeText(text) == SelectSeq(Strip(text), NotPythonFence)

----------------------------------------------------------------------------
(* JSON documents the vision model may answer with *)

JsonDocs ==
    [ json_A |-> [isObject |-> TRUE,
                  members |-> [vendor |-> "Acme", invoice_number |-> "INV-1",
                               invoice_date |-> "2024-01-05",
                               due_date |-> "2024-02-05", total |-> "100.00"]],
      json_B |-> [isObject |-> TRUE,
                  members |-> [vendor |-> "Bolt", invoice_number |-> "INV-2",
                               invoice_date |-> "2024-01-10",
                               due_date |-> "2024-02-10", total |-> "200.00"]],
      json_no_due |-> [isObject |-> TRUE,
                  members |-> [vendor |-> "Cord", invoice_number |-> "INV-3",
                               invoice_date |-> "2024-01-05", total |-> "100.00"]],
      json_bad_date |-> [isObject |-> TRUE,
                  members |-> [vendor |-> "Dune", invoice_number |-> "INV-4",
                               invoice_date |-> "sometime",
                               due_date |-> "2024-02-05", total |-> "100.00"]],
      json_bad_total |-> [isObject |-> TRUE,
                  members |-> [vendor |-> "Eyre", invoice_number |-> "INV-5",
                               invoice_date |-> "2024-01-05",
                               due_date |-> "2024-02-05", total |-> "n/a"]],
      json_number |-> [isObject |-> FALSE, members |-> [scalar |-> "42"]] ]

\* json.loads accepts white space around exactly one JSON value
JsonParses(text) ==
    LET body == SelectSeq(text, NotSpace)
    IN  Len(body) = 1 /\ body[1] \in DOMAIN JsonDocs

JsonLoads(text) == JsonDocs[SelectSeq(text, NotSpace)[1]]

----------------------------------------------------------------------------
(* parse_invoices_from_images *)

ImageCases ==
    { [readable |-> FALSE, model_ok |-> TRUE, text |-> <<>>],
      [readable |-> TRUE, model_ok |-> FALSE, text |-> <<>>],
      [readable |-> TRUE, model_ok |-> TRUE, text |-> <<"Sorry,", " ", "json_A">>],
      [readable |-> TRUE, model_ok |-> TRUE,
       text |-> <<"<fence>json", " ", "json_A", " ", "<fence>", " ">>],
      [readable |-> TRUE, model_ok |-> TRUE, text |-> <<"json_B">>],
      [readable |-> TRUE, model_ok |-> TRUE, text |-> <<"json_no_due">>],
      [readable |-> TRUE, model_ok |-> TRUE, text |-> <<"json_bad_date">>],
      [readable |-> TRUE, model_ok |-> TRUE, text |-> <<"json_bad_total">>],
      [readable |-> TRUE, model_ok |-> TRUE, text |-> <<"json_number">>] }

\* the body of the try block for one file: raised, or the value appended
ExtractOne(img) ==
    IF ~img.readable THEN [raised |-> TRUE, data |-> JsonDocs.json_number]
    ELSE IF ~img.model_ok THEN [raised |-> TRUE, data |-> JsonDocs.json_number]
    ELSE LET json_text == CleanJsonText(img.text)
         IN  IF JsonParses(json_text)
             THEN [raised |-> FALSE, data |-> JsonLoads(json_text)]
             ELSE [raised |-> TRUE, data |-> JsonDocs.json_number]

\* one pass of the for loop over image_files, try and except included
ProcessImage ==
    /\ pc = "parse"
    /\ Len(log) < Len(image_files)
    /\ LET filename == Len(log) + 1
           r == ExtractOne(image_files[filename])
       IN  IF r.raised
           THEN /\ log' = Append(log, [file |-> filename, result |-> "error"])
                /\ UNCHANGED invoice_data
           ELSE /\ log' = Append(log, [file |-> filename, result |-> "ok"])
                /\ invoice_data' = Append(invoice_data, r.data)
    /\ UNCHANGED <<image_files, df, built, fs, pc, reads, user_question,
                   generated_code, stdout, old_targets, buffer, code_result,
                   exc, steps, shown>>

\* return invoice_data
ReturnInvoiceData ==
    /\ pc = "parse"
    /\ Len(log) = Len(image_files)
    /\ pc' = "build"
    /\ UNCHANGED <<image_files, log, invoice_data, df, built, fs, reads,
                   user_question, generated_code, stdout, old_targets, buffer,
                   code_result, exc, steps, shown>>

----------------------------------------------------------------------------
(* create_pandas_dataframe *)

\* the strings pd.to_datetime parses, with the Timestamp they give
DateValue ==
    ("2024-01-05" :> [year |-> 2024, month |-> 1, day |-> 5]) @@
    ("2024-01-10" :> [year |-> 2024, month |-> 1, day |-> 10]) @@
    ("2024-02-05" :> [year |-> 2024, month |-> 2, day |-> 5]) @@
    ("2024-02-10" :> [year |-> 2024, month |-> 2, day |-> 10])

\* the strings pd.to_numeric parses, with the number they give
NumericValue == ("100.00" :> 100) @@ ("200.00" :> 200)

NaT == [year |-> 0, month |-> 0, day |-> 0]
NaN == [nan |-> TRUE, value |-> 0]
Number(n) == [nan |-> FALSE, value |-> n]

EmptyTable == [columns |-> {}, rows |-> <<>>]

\* the columns of pd.DataFrame(list of dicts): the union of the keys
Columns(data) == UNION {DOMAIN data[i].members : i \in 1..Len(data)}

\* pd.to_datetime(df[c]) / pd.to_numeric(df[c]) raise: the column is in no
\* record (KeyError), or a present value does not parse (ValueError)
ColumnRaises(data, c, parseable) ==
    \/ c \notin Columns(data)
    \/ \E i \in 1..Len(data) :
          c \in DOMAIN data[i].members /\ data[i].members[c] \notin parseable

BuildRaises(data) ==
    \/ \E i \in 1..Len(data) : ~data[i].isObject
    \/ ColumnRaises(data, "invoice_date", DOMAIN DateValue)
    \/ ColumnRaises(data, "due_date", DOMAIN DateValue)
    \/ ColumnRaises(data, "total", DOMAIN NumericValue)

\* a row after the three coercions; a key the record lacks is a missing value
CoerceRow(m, cols) ==
    [c \in cols |->
        IF c \in DateFields
        THEN IF c \in DOMAIN m THEN DateValue[m[c]] ELSE NaT
        ELSE IF c = "total"
        THEN IF c \in DOMAIN m THEN Number(NumericValue[m[c]]) ELSE NaN
        ELSE IF c \in DOMAIN m THEN m[c] ELSE "NaN"]

create_pandas_dataframe(data) ==
    IF data = <<>> THEN EmptyTable
    ELSE [columns |-> Columns(data),
          rows |-> [i \in 1..Len(data) |-> CoerceRow(data[i].members, Columns(data))]]

\* invoice_df = create_pandas_dataframe(parsed_data); an exception it raises
\* is caught nowhere and ends the program
CreateDataFrame ==
    /\ pc = "build"
    /\ IF invoice_data # <<>> /\ BuildRaises(invoice_data)
       THEN /\ pc' = "crashed"
            /\ exc' = "Exception"
            /\ UNCHANGED <<df, built>>
       ELSE /\ df' = create_pandas_dataframe(invoice_data)
            /\ built' = create_pandas_dataframe(invoice_data)
            /\ pc' = "start"
            /\ UNCHANGED exc
    /\ UNCHANGED <<image_files, log, invoice_data, fs, reads, user_question,
                   generated_code, stdout, old_targets, buffer, code_result,
                   steps, shown>>

----------------------------------------------------------------------------
(* start_chatbot_agent: streams *)

\* print() and input()'s prompt write to whatever sys.stdout is bound to
WriteAll(target, sh, buf, items) ==
    IF target = "session"
    THEN [shown |-> sh \o [i \in 1..Len(items) |-> items[i].kind], buffer |-> buf]
    ELSE [shown |-> sh, buffer |-> buf \o items]

Line(kind) == [kind |-> kind, turn |-> reads, val |-> 0]

\* buffer = io.StringIO()
FreshBuffer == <<>>

\* the stream is put back on a normal return only
RestoredOnReturnOnly(current, saved, raised) ==
    IF raised THEN current ELSE saved[Len(saved)]

\* redirect_stdout.__exit__: sys.stdout = self._old_targets.pop(), on return
\* and on raise alike
RestoredStdout(current, saved, raised) == saved[Len(saved)]

\* the failed step is run again
HandlerRetry(e, failed_pc) == failed_pc

\* except Exception as e: catches Exception and its subclasses only
Handler(e, failed_pc) == IF e = "Exception" THEN "except" ELSE "terminated"

\* the emptiness test left out
DfEmptyNever(d) == FALSE

\* df.empty
DfEmpty(d) == d.rows = <<>> \/ d.columns = {}

----------------------------------------------------------------------------
(* start_chatbot_agent: the questions and the sentinel *)

ExitWord == <<"e", "x", "i", "t">>

Questions ==
    { ExitWord,
      <<"E", "X", "I", "T">>,
      <<"E", "x", "i", "t">>,
      <<"e", "x", "i", "t", " ">>,
      <<"s", "u", "m">> }

UpperToLower == ("E" :> "e") @@ ("X" :> "x") @@ ("I" :> "i") @@ ("T" :> "t")

\* str.lower()
Lower(s) ==
    [i \in 1..Len(s) |-> IF s[i] \in DOMAIN UpperToLower THEN UpperToLower[s[i]] ELSE s[i]]

\* the comparison without lower()
IsExitCaseSensitive(q) == q = ExitWord

\* user_question.lower() == 'exit'
IsExit(q) == Lower(q) = ExitWord

----------------------------------------------------------------------------
(* start_chatbot_agent: the generated code and what exec does with it *)

InitialFiles == {"invoices/a.png", ".env"}

Codes ==
    { "print(len(df))",
      "print(df['total'].sum())",
      "print(len(df)); print(1/0)",
      "print(df['paid'].sum())",
      "print(len(df)",
      "open('out.txt', 'w').write('x')",
      "__import__('os').remove('invoices/a.png')",
      "df.drop(df.index, inplace=True)",
      "raise SystemExit" }

\* what generate_content returns for the code prompt; ok = FALSE: it raises
CodeResponses ==
    { [ok |-> TRUE, text |-> <<c>>] : c \in Codes } \cup
    { [ok |-> TRUE, text |-> <<"<fence>python", " ", "print(len(df))", " ", "<fence>">>],
      [ok |-> FALSE, text |-> <<>>] }

RECURSIVE SumTotals(_)
SumTotals(rows) ==
    IF rows = <<>> THEN 0
    ELSE (IF rows[1].total.nan THEN 0 ELSE rows[1].total.value) + SumTotals(Tail(rows))

Printed(n) == [kind |-> "query_out", turn |-> reads, val |-> n]

\* exec(generated_code, {"df": df, "pd": pd, "today_date": today_date}):
\* exec adds __builtins__ to the globals it is given, so open, __import__
\* and SystemExit resolve, and df is the caller's object, not a copy
Exec(code, d, files) ==
    LET text == SelectSeq(code, NotSpace)
        stmt == IF text = <<>> THEN "" ELSE IF Len(text) = 1 THEN text[1] ELSE "<invalid>"
        same == [out |-> <<>>, df |-> d, fs |-> files, raised |-> "none"]
    IN  CASE stmt = "" -> same
          [] stmt = "print(len(df))" ->
               [same EXCEPT !.out = <<Printed(Len(d.rows))>>]
          [] stmt = "print(df['total'].sum())" ->
               [same EXCEPT !.out = <<Printed(SumTotals(d.rows))>>]
          [] stmt = "print(len(df)); print(1/0)" ->
               [same EXCEPT !.out = <<Printed(Len(d.rows))>>, !.raised = "Exception"]
          [] stmt = "print(df['paid'].sum())" ->
               [same EXCEPT !.raised = "Exception"]
          [] stmt = "open('out.txt', 'w').write('x')" ->
               [same EXCEPT !.fs = files \cup {"out.txt"}]
          [] stmt = "__import__('os').remove('invoices/a.png')" ->
               IF "invoices/a.png" \in files
               THEN [same EXCEPT !.fs = files \ {"invoices/a.png"}]
               ELSE [same EXCEPT !.raised = "Exception"]
          [] stmt = "df.drop(df.index, inplace=True)" ->
               [same EXCEPT !.df = [d EXCEPT !.rows = <<>>]]
          [] stmt = "raise SystemExit" ->
               [same EXCEPT !.raised = "SystemExit"]
          [] OTHER ->
               [same EXCEPT !.raised = "Exception"]

----------------------------------------------------------------------------
(* start_chatbot_agent: the steps *)

\* if df.empty: print the warning and return; else print the banner, build
\* the prompt template and enter the loop
StartChatbot ==
    /\ pc = "start"
    /\ IF DfEmpty(df)
       THEN /\ pc' = "nodata"
            /\ shown' = WriteAll(stdout, shown, buffer, <<Line("no_data")>>).shown
       ELSE /\ pc' = "input"
            /\ shown' = WriteAll(stdout, shown, buffer, <<Line("banner")>>).shown
    /\ UNCHANGED <<image_files, log, invoice_data, df, built, fs, reads,
                   user_question, generated_code, stdout, old_targets, buffer,
                   code_result, exc, steps>>

\* user_question = input("You: "); the sentinel test and its break
ReadInput ==
    /\ pc = "input"
    /\ reads < MaxTurns
    /\ \E q \in Questions :
          LET prompted == WriteAll(stdout, <<>>, buffer, <<Line("prompt")>>)
          IN  /\ user_question' = q
              /\ reads' = reads + 1
              /\ steps' = <<>>
              /\ IF IsExit(q)
                 THEN LET w == WriteAll(stdout, prompted.shown, prompted.buffer,
                                        <<Line("goodbye")>>)
                      IN  /\ pc' = "done"
                          /\ shown' = w.shown
                          /\ buffer' = w.buffer
                 ELSE /\ pc' = "synth"
                      /\ shown' = prompted.shown
                      /\ buffer' = prompted.buffer
    /\ UNCHANGED <<image_files, log, invoice_data, df, built, fs,
                   generated_code, stdout, old_targets, code_result, exc>>

\* 1. prompt, model.generate_content(prompt), the fences removed, the
\*    generated code printed
Synthesize ==
    /\ pc = "synth"
    /\ \E response \in CodeResponses :
          IF response.ok
          THEN LET w == WriteAll(stdout, shown, buffer, <<Line("generated_code")>>)
               IN  /\ generated_code' = CleanCodeText(response.text)
                   /\ steps' = Append(steps, [name |-> "synthesize", ok |-> TRUE])
                   /\ shown' = w.shown
                   /\ buffer' = w.buffer
                   /\ pc' = "redirect"
                   /\ UNCHANGED exc
          ELSE /\ steps' = Append(steps, [name |-> "synthesize", ok |-> FALSE])
               /\ exc' = "Exception"
               /\ pc' = Handler("Exception", "synth")
               /\ UNCHANGED <<generated_code, shown, buffer>>
    /\ UNCHANGED <<image_files, log, invoice_data, df, built, fs, reads,
                   user_question, stdout, old_targets, code_result>>

\* buffer = io.StringIO(); with contextlib.redirect_stdout(buffer): entered
EnterRedirect ==
    /\ pc = "redirect"
    /\ buffer' = FreshBuffer
    /\ old_targets' = Append(old_targets, stdout)
    /\ stdout' = "buffer"
    /\ pc' = "exec"
    /\ UNCHANGED <<image_files, log, invoice_data, df, built, fs, reads,
                   user_question, generated_code, code_result, exc, steps, shown>>

\* 2. exec(generated_code, ...) inside the with block
ExecuteCode ==
    /\ pc = "exec"
    /\ LET r == Exec(generated_code, df, fs)
           w == WriteAll(stdout, shown, buffer, r.out)
       IN  /\ df' = r.df
           /\ fs' = r.fs
           /\ exc' = r.raised
           /\ shown' = w.shown
           /\ buffer' = w.buffer
           /\ steps' = Append(steps, [name |-> "execute", ok |-> r.raised = "none"])
    /\ pc' = "leave"
    /\ UNCHANGED <<image_files, log, invoice_data, built, reads, user_question,
                   generated_code, stdout, old_targets, code_result>>

\* the with block is left: stdout restored; then code_result is read, or the
\* exception goes to the handler
LeaveRedirect ==
    /\ pc = "leave"
    /\ stdout' = RestoredStdout(stdout, old_targets, exc # "none")
    /\ old_targets' = SubSeq(old_targets, 1, Len(old_targets) - 1)
    /\ IF exc = "none"
       THEN /\ code_result' = buffer
            /\ pc' = "compose"
       ELSE /\ pc' = Handler(exc, "redirect")
            /\ UNCHANGED code_result
    /\ UNCHANGED <<image_files, log, invoice_data, df, built, fs, reads,
                   user_question, generated_code, buffer, exc, steps, shown>>

\* 3. the summarization prompt, model.generate_content, the answer printed
Compose ==
    /\ pc = "compose"
    /\ \E ok \in BOOLEAN :
          /\ steps' = Append(steps, [name |-> "compose", ok |-> ok])
          /\ IF ok
             THEN LET w == WriteAll(stdout, shown, buffer, <<Line("answer")>>)
                  IN  /\ shown' = w.shown
                      /\ buffer' = w.buffer
                      /\ pc' = "input"
                      /\ UNCHANGED exc
             ELSE /\ exc' = "Exception"
                  /\ pc' = Handler("Exception", "compose")
                  /\ UNCHANGED <<shown, buffer>>
    /\ UNCHANGED <<image_files, log, invoice_data, df, built, fs, reads,
                   user_question, generated_code, stdout, old_targets, code_result>>

\* except Exception as e: the error message printed, back to the prompt
Except ==
    /\ pc = "except"
    /\ LET w == WriteAll(stdout, shown, buffer, <<Line("error")>>)
       IN  /\ shown' = w.shown
           /\ buffer' = w.buffer
    /\ exc' = "none"
    /\ pc' = "input"
    /\ UNCHANGED <<image_files, log, invoice_data, df, built, fs, reads,
                   user_question, generated_code, stdout, old_targets,
                   code_result, steps>>

----------------------------------------------------------------------------
(* The program *)

RECURSIVE SeqsUpTo(_, _)
SeqsUpTo(S, n) ==
    IF n = 0 THEN {<<>>}
    ELSE LET shorter == SeqsUpTo(S, n - 1)
         IN  shorter \cup {Append(s, x) : s \in shorter, x \in S}

Init ==
    /\ image_files \in SeqsUpTo(ImageCases, MaxImages)
    /\ log = <<>>
    /\ invoice_data = <<>>
    /\ df = EmptyTable
    /\ built = EmptyTable
    /\ fs = InitialFiles
    /\ pc = "parse"
    /\ reads = 0
    /\ user_question = <<>>
    /\ generated_code = <<>>
    /\ stdout = "session"
    /\ old_targets = <<>>
    /\ buffer = <<>>
    /\ code_result = <<>>
    /\ exc = "none"
    /\ steps = <<>>
    /\ shown = <<>>

Next ==
    \/ ProcessImage
    \/ ReturnInvoiceData
    \/ CreateDataFrame
    \/ StartChatbot
    \/ ReadInput
    \/ Synthesize
    \/ EnterRedirect
    \/ ExecuteCode
    \/ LeaveRedirect
    \/ Compose
    \/ Except

Spec == Init /\ [][Next]_vars

----------------------------------------------------------------------------
(* Vocabulary of the properties *)

LoopPcs == {"input", "synth", "redirect", "exec", "leave", "compose",
            "except", "done", "terminated"}

Range(f) == {f[i] : i \in DOMAIN f}

\* a record with all five fields, the dates and the total well-formed
ValidRecord(v) ==
    /\ v.isObject
    /\ DOMAIN v.members = Fields
    /\ v.members.invoice_date \in DOMAIN DateValue
    /\ v.members.due_date \in DOMAIN DateValue
    /\ v.members.total \in DOMAIN NumericValue

\* an image whose extraction fails in the sense of the failure policy:
\* unreadable, model error, invalid JSON, missing field, bad date or number
ImageFails(img) ==
    \/ ~img.readable
    \/ ~img.model_ok
    \/ ~JsonParses(CleanJsonText(img.text))
    \/ ~ValidRecord(JsonLoads(CleanJsonText(img.text)))

RECURSIVE RecordsOfGoodImages(_)
RecordsOfGoodImages(images) ==
    IF images = <<>> THEN <<>>
    ELSE IF ImageFails(images[1]) THEN RecordsOfGoodImages(Tail(images))
    ELSE <<JsonLoads(CleanJsonText(images[1].text))>> \o RecordsOfGoodImages(Tail(images))

ValidRow(row) ==
    /\ DOMAIN row = Fields
    /\ row.invoice_date \in Range(DateValue)
    /\ row.due_date \in Range(DateValue)
    /\ ~row.total.nan

\* letter by letter, either case
CaseInsensitiveExit(q) ==
    /\ Len(q) = Len(ExitWord)
    /\ q[1] \in {"e", "E"}
    /\ q[2] \in {"x", "X"}
    /\ q[3] \in {"i", "I"}
    /\ q[4] \in {"t", "T"}

FileCodes == { <<"open('out.txt', 'w').write('x')">>,
               <<"__import__('os').remove('invoices/a.png')">> }

StepOrder == <<"synthesize", "execute", "compose">>

----------------------------------------------------------------------------
(* Properties *)

\* C1: a generated query that writes or deletes a file never succeeds: its
\* evaluation ends in an exception and the files on disk are unchanged.
C1_QueryContainment ==
    /\ fs = InitialFiles
    /\ (pc = "leave" /\ generated_code \in FileCodes) => exc = "Exception"

\* C2: the table every turn reads is exactly the one create_pandas_dataframe
\* returned; no query evaluation changes it.
C2_TableReadOnly ==
    pc \in LoopPcs => df = built

\* C3: when parse_invoices_from_images returns, every image was attempted
\* exactly once, in order; an image is recorded as an error exactly when its
\* extraction fails (unreadable, model error, invalid JSON, missing field,
\* bad date or number); and the list returned holds the records of the
\* images that did not fail.
C3_FailureIsolation ==
    pc # "parse" =>
        /\ Len(log) = Len(image_files)
        /\ \A i \in 1..Len(log) :
              /\ log[i].file = i
              /\ (log[i].result = "error") <=> ImageFails(image_files[i])
        /\ invoice_data = RecordsOfGoodImages(image_files)

\* C4: every element of the list the extractor accumulates is a record with
\* all five fields present and well-typed; never a partial record or a
\* non-object JSON value.
C4_NoPartialRecord ==
    \A i \in 1..Len(invoice_data) : ValidRecord(invoice_data[i])

\* C5: for a non-empty list of records create_pandas_dataframe does not
\* raise, and returns exactly the rows of the well-formed records, each with
\* valid dates and a numeric total.
C5_TableBuilder ==
    (pc \notin {"parse", "build"} /\ invoice_data # <<>>) =>
        /\ pc # "crashed"
        /\ \A i \in 1..Len(built.rows) : ValidRow(built.rows[i])
        /\ built.rows = create_pandas_dataframe(
                            SelectSeq(invoice_data, ValidRecord)).rows

\* C6: nothing raised while a question is handled ends the process: the
\* program never terminates from inside a turn.
C6_QuestionFailureNotFatal ==
    pc # "terminated"

C8_EmptyDataset ==
    /\ (pc \notin {"parse", "build"} /\ invoice_data = <<>>) =>
          /\ df = EmptyTable
          /\ pc \in {"start", "nodata"}
          /\ reads = 0
          /\ steps = <<>>
          /\ pc = "nodata" => shown = <<"no_data">>
    /\ pc \in LoopPcs => Len(built.rows) >= 1
    /\ pc = "nodata" => invoice_data = <<>>

C8_Witness ==
    /\ pc = "nodata"
    /\ Len(image_files) >= 1

\* C9: the steps of a turn are a prefix of synthesize, execute, compose, a
\* failed step is the last of its turn, and when the next prompt is due the
\* turn has printed the answer (all three steps succeeded) or the error
\* message (its last step failed).
C9_TurnOrder ==
    /\ \A i \in 1..Len(steps) :
          /\ i <= Len(StepOrder)
          /\ steps[i].name = StepOrder[i]
          /\ i < Len(steps) => steps[i].ok
    /\ (pc = "input" /\ reads > 0) =>
          /\ steps # <<>>
          /\ shown # <<>>
          /\ IF steps[Len(steps)].ok
             THEN Len(steps) = Len(StepOrder) /\ shown[Len(shown)] = "answer"
             ELSE shown[Len(shown)] = "error"

C9_Witness ==
    /\ pc = "input"
    /\ reads > 1
    /\ Len(steps) = Len(StepOrder) - 1
    /\ ~steps[Len(steps)].ok
    /\ shown[Len(shown)] = "error"

====
